---- MODULE Spec2Model ----
(***************************************************************************)
(* Music Soup: reconciliation of Spotify / Apple Music playlists into a    *)
(* Notion database (syncOrchestrator.js, notionClient.js, schema.js).      *)
(*                                                                         *)
(* Strings are sequences of one-character strings; the empty sequence      *)
(* stands for a value that is absent (undefined, null or '').  The Notion  *)
(* database is the sequence `sink` of pages in creation order.             *)
(***************************************************************************)
EXTENDS Integers, Sequences, FiniteSets, TLC

VARIABLES
  mode,             \* "Update" | "Preserve": which syncTrackToNotion variant is deployed
  dryRun,           \* config.config.dryRun
  sink,             \* the Notion database: pages in creation order
  live,             \* live[k]: the tracks currently in configured playlist k
  pc,               \* position of the single control thread
  p,                \* syncAllPlaylists: index of the playlist being synced
  tracks,           \* syncSpotifyPlaylist / syncAppleMusicPlaylist: fetched tracks
  i,                \* index of the next track of `tracks`
  results,          \* per-playlist results {added, updated, skipped, errors}
  summary,          \* syncAllPlaylists summary
  allNotionTracks,  \* cleanupRemovedTracks: pages returned by the initial query
  currentTrackIds,  \* cleanupRemovedTracks: set of live identifiers
  j,                \* cleanupRemovedTracks: index of the next page
  cleanup,          \* cleanupRemovedTracks results {marked, errors}
  outcome,          \* how the last fullSync ended: "none" | "returned" | "raised"
  runs,             \* number of fullSync runs started
  faults,           \* number of injected failures of external calls
  last,             \* what the last per-track or per-page step did
  hist,             \* facts about the run so far and the previous run
  net,              \* the HTTP client of a source: request in flight, token cache
  hook              \* webhook-server.js: the request being answered

vars == <<mode, dryRun, sink, live, pc, p, tracks, i, results, summary,
          allNotionTracks, currentTrackIds, j, cleanup, outcome, runs,
          faults, last, hist, net, hook>>

\* ---------------------------------------------------------------- bounds
MaxTracks == 2
MaxRuns == 2
MaxFaults == 1
MaxPages == 2
MaxScenarioTracks == 3

MaxTime == 4
MaxPosts == 2
MaxPlaylistPages == 2
MaxCalls == 2

\* spotifyRequest / appleMusicRequest: const maxRetries = 3
maxRetries == 3

\* the time by which a cached token is given up early, the unit of the clock:
\* 60 s for Spotify's access token, a day for Apple Music's developer token
Margin == 1

\* generateDeveloperToken: the token lives 6 * 30 days
AppleLifetime == 180

\* --------------------------------------------------------------- strings
Absent == <<>>

LowerChar(c) ==
  CASE c = "X" -> "x"
    [] c = "A" -> "a"
    [] OTHER -> c

toLowerCase(s) == [k \in 1..Len(s) |-> LowerChar(s[k])]

includes(s, sub) ==
  \E k \in 0..(Len(s) - Len(sub)) : SubSeq(s, k + 1, k + Len(sub)) = sub

Reverse(s) == [k \in 1..Len(s) |-> s[Len(s) + 1 - k]]

\* `${title.toLowerCase()}:${artist.toLowerCase()}`
titleArtistKey(title, artist) ==
  toLowerCase(title) \o <<":">> \o toLowerCase(artist)

\* ------------------------------------------------------------ data model
Titles == {<<"a">>, <<"a", "b">>}
Artists == {Absent, <<"x">>, <<"X", "y">>}
Isrcs == {Absent, <<"i">>, <<"i", "j">>}

\* normalized track data as produced by processTrackData (identity fields)
Tracks == [title : Titles, artist : Artists, isrc : Isrcs]

Track(title, artist, isrc) == [title |-> title, artist |-> artist, isrc |-> isrc]

\* the tracks that occur in the playlists of the run machine
PlaylistTracks ==
  {Track(<<"a">>, <<"x">>, <<"i">>),
   Track(<<"a">>, <<"x">>, Absent),
   Track(<<"a">>, Absent, Absent),
   Track(<<"a", "b">>, <<"X", "y">>, Absent),
   Track(<<"a">>, <<"X", "y">>, <<"i", "j">>),
   Track(<<"a", "b">>, Absent, <<"i">>)}

Null == 0
NoSource == "none"
ManualSources == {"Link Only", "File Upload"}

\* services of the configured playlists, in getAllConfiguredPlaylists order
Playlists == <<"spotify", "appleMusic">>

\* a Notion page; id is its position in creation order; Notes and Composer
\* are fields the schema lists as manual; Duration is empty until written
Page(id, title, artist, isrc, removed, source, notes, composer) ==
  [id |-> id, title |-> title, artist |-> artist, isrc |-> isrc,
   removed |-> removed, source |-> source, notes |-> notes,
   composer |-> composer, duration |-> Absent]

\* fields of a page that NOTION_FIELDS lists under "Manual Fields"
ManualFields == {"notes", "composer"}

\* trackData.composer: set by appleMusicClient.processTrackData only
composerOf(trackData) ==
  IF "composer" \in DOMAIN trackData THEN trackData.composer ELSE Absent

\* trackData.duration: undefined when the field is missing, else null (the
\* empty tuple) or a whole number of seconds (a one-element tuple)
hasDuration(trackData) == "duration" \in DOMAIN trackData

\* ------------------------------------------------------------- schema.js
Digits == <<"0", "1", "2", "3", "4", "5", "6", "7", "8", "9">>

\* Number.prototype.toString of a natural number
RECURSIVE toString(_)
toString(n) ==
  IF n < 10 THEN <<Digits[n + 1]>>
  ELSE toString(n \div 10) \o <<Digits[(n % 10) + 1]>>

\* String.prototype.padStart(2, '0')
padStart(str) == IF Len(str) < 2 THEN <<"0">> \o str ELSE str

\* formatDuration(seconds): null for a falsy argument, else M:SS
formatDuration(seconds) ==
  IF seconds = <<>> \/ seconds[1] = 0 THEN Absent
  ELSE toString(seconds[1] \div 60) \o <<":">> \o padStart(toString(seconds[1] % 60))

\* reading a stored duration back: the number a decimal string stands for
RECURSIVE toNumber(_)
toNumber(str) ==
  IF str = <<>> THEN 0
  ELSE LET d == CHOOSE n \in 0..9 : Digits[n + 1] = str[Len(str)]
       IN 10 * toNumber(SubSeq(str, 1, Len(str) - 1)) + d

\* reading a stored duration back: M:SS to seconds, nothing from an empty
\* property
parseDuration(str) ==
  IF str = Absent THEN <<>>
  ELSE LET colon == CHOOSE n \in 1..Len(str) : str[n] = ":"
       IN <<60 * toNumber(SubSeq(str, 1, colon - 1))
              + toNumber(SubSeq(str, colon + 1, Len(str)))>>

\* ------------------------------------------------------- notionClient.js
\* the pages of the database that satisfy a filter
Pages(s) == {s[n] : n \in 1..Len(s)}

\* variant: the pages come oldest first
queryDatabase_oldestFirst(s, matching) == SelectSeq(s, LAMBDA r : r \in matching)

\* notion.databases.query: the pages the filter selects (`matching`), sorted
\* by created time, descending
queryDatabase(s, matching) == SelectSeq(Reverse(s), LAMBDA r : r \in matching)

\* variant: the filter compares for equality instead of containment
findTrackByIsrc_equals(s, isrc, queryOk) ==
  IF isrc = Absent THEN Null
  ELSE IF ~queryOk THEN Null
  ELSE LET found == SelectSeq(Reverse(s), LAMBDA r : r.isrc = isrc)
       IN IF Len(found) > 0 THEN found[1].id ELSE Null

\* variant: a failing query is not turned into 'no match'
findTrackByIsrc_ignoresFailure(s, isrc, queryOk) ==
  IF isrc = Absent THEN Null
  ELSE LET found == SelectSeq(Reverse(s), LAMBDA r : includes(r.isrc, isrc))
       IN IF Len(found) > 0 THEN found[1].id ELSE Null

findTrackByIsrc(s, isrc, queryOk) ==
  IF isrc = Absent THEN Null
  ELSE IF ~queryOk THEN Null
  ELSE LET found == queryDatabase(s, {r \in Pages(s) : includes(r.isrc, isrc)})
       IN IF Len(found) > 0 THEN found[1].id ELSE Null

\* variant: the first page found by title is returned, the artist unchecked
findTrackByTitleArtist_anyArtist(s, title, artist, queryOk) ==
  IF title = Absent \/ artist = Absent THEN Null
  ELSE IF ~queryOk THEN Null
  ELSE LET found == SelectSeq(Reverse(s), LAMBDA r : includes(r.title, title))
       IN IF Len(found) > 0 THEN found[1].id ELSE Null

findTrackByTitleArtist(s, title, artist, queryOk) ==
  IF title = Absent \/ artist = Absent THEN Null
  ELSE IF ~queryOk THEN Null
  ELSE LET found == queryDatabase(s, {r \in Pages(s) : includes(r.title, title)})
           hits == SelectSeq(found, LAMBDA r :
                     /\ r.artist # Absent
                     /\ includes(toLowerCase(r.artist), toLowerCase(artist)))
       IN IF Len(hits) > 0 THEN hits[1].id ELSE Null

\* variant: Removed is not part of the properties
buildTrackProperties_keepRemoved(trackData) ==
  LET fields == (IF trackData.title # Absent THEN {"title"} ELSE {})
                  \cup (IF trackData.artist # Absent THEN {"artist"} ELSE {})
                  \cup (IF trackData.isrc # Absent THEN {"isrc"} ELSE {})
                  \cup (IF composerOf(trackData) # Absent THEN {"composer"} ELSE {})
                  \cup (IF hasDuration(trackData) THEN {"duration"} ELSE {})
  IN [f \in fields |-> IF f = "duration" THEN formatDuration(trackData.duration)
                       ELSE trackData[f]]

\* the properties object: only the fields the track carries, plus Removed
buildTrackProperties(trackData) ==
  LET fields == (IF trackData.title # Absent THEN {"title"} ELSE {})
                  \cup (IF trackData.artist # Absent THEN {"artist"} ELSE {})
                  \cup (IF trackData.isrc # Absent THEN {"isrc"} ELSE {})
                  \cup (IF composerOf(trackData) # Absent THEN {"composer"} ELSE {})
                  \cup (IF hasDuration(trackData) THEN {"duration"} ELSE {})
                  \cup {"removed"}
  IN [f \in fields |-> IF f = "removed" THEN FALSE
                       ELSE IF f = "duration" THEN formatDuration(trackData.duration)
                       ELSE trackData[f]]

\* notion.pages.create: a new page, newest in creation order
pagesCreate(s, properties) ==
  LET get(f) == IF f \in DOMAIN properties THEN properties[f] ELSE Absent
      removed == IF "removed" \in DOMAIN properties THEN properties["removed"]
                 ELSE FALSE
  IN Append(s, [Page(Len(s) + 1, get("title"), get("artist"), get("isrc"),
                     removed, NoSource, Absent, get("composer"))
                  EXCEPT !.duration = get("duration")])

\* notion.pages.update: only the given properties of the page change
pagesUpdate(s, pageId, properties) ==
  [k \in 1..Len(s) |->
     IF s[k].id = pageId
     THEN [f \in DOMAIN s[k] |->
             IF f \in DOMAIN properties THEN properties[f] ELSE s[k][f]]
     ELSE s[k]]

\* variant: the dry-run flag is not consulted
createTrack_ignoresDryRun(s, trackData, dry) ==
  pagesCreate(s, buildTrackProperties(trackData))

createTrack(s, trackData, dry) ==
  IF dry THEN s ELSE pagesCreate(s, buildTrackProperties(trackData))

updateTrack(s, pageId, trackData, dry) ==
  IF dry THEN s ELSE pagesUpdate(s, pageId, buildTrackProperties(trackData))

\* variant: the page is deleted instead of flagged
markTrackRemoved_deletes(s, pageId, dry) ==
  IF dry THEN s ELSE SelectSeq(s, LAMBDA r : r.id # pageId)

markTrackRemoved(s, pageId, dry) ==
  IF dry THEN s ELSE pagesUpdate(s, pageId, [f \in {"removed"} |-> TRUE])

\* ---------------------------------------------------- syncOrchestrator.js
\* syncTrackToNotion, identity resolution: ISRC first, then title/artist
\* variant: the ISRC lookup is left out
existingTrack_titleOnly(s, trackData, isrcOk, titleOk) ==
  findTrackByTitleArtist(s, trackData.title, trackData.artist, titleOk)

existingTrack(s, trackData, isrcOk, titleOk) ==
  LET byIsrc == IF trackData.isrc # Absent
                THEN findTrackByIsrc(s, trackData.isrc, isrcOk)
                ELSE Null
  IN IF byIsrc # Null THEN byIsrc
     ELSE findTrackByTitleArtist(s, trackData.title, trackData.artist, titleOk)

\* which lookup produced the match
matchedVia(s, trackData, isrcOk, titleOk) ==
  IF trackData.isrc # Absent /\ findTrackByIsrc(s, trackData.isrc, isrcOk) # Null
  THEN "isrc"
  ELSE IF findTrackByTitleArtist(s, trackData.title, trackData.artist, titleOk) # Null
       THEN "title"
       ELSE "none"

\* syncTrackToNotion, what is done with the resolved page
\*   Update variant:   update the page, 'updated'
\*   Preserve variant: no write, 'skipped'
upsertResult(m, existing) ==
  IF existing = Null THEN "created"
  ELSE IF m = "Update" THEN "updated" ELSE "skipped"

\* variant: an existing page is updated in either mode
upsertSink_alwaysUpdates(m, s, existing, trackData, dry) ==
  IF existing = Null THEN createTrack(s, trackData, dry)
  ELSE updateTrack(s, existing, trackData, dry)

\* variant: a resolved page that is removed is made active again
upsertSink_reactivates(m, s, existing, trackData, dry) ==
  IF existing = Null THEN createTrack(s, trackData, dry)
  ELSE IF m = "Update" THEN updateTrack(s, existing, trackData, dry)
       ELSE IF dry THEN s
            ELSE pagesUpdate(s, existing, [f \in {"removed"} |-> FALSE])

upsertSink(m, s, existing, trackData, dry) ==
  IF existing = Null THEN createTrack(s, trackData, dry)
  ELSE IF m = "Update" THEN updateTrack(s, existing, trackData, dry)
       ELSE s

ZeroResults == [added |-> 0, updated |-> 0, skipped |-> 0, errors |-> 0]

ZeroSummary ==
  [spotify |-> ZeroResults, appleMusic |-> ZeroResults,
   total |-> [processed |-> 0, successful |-> 0, skipped |-> 0, errors |-> 0]]

\* variant: the counters of the earlier driver, which has no skipped counter
countResult_noSkipped(r, result) ==
  CASE result = "created" -> [r EXCEPT !.added = @ + 1]
    [] result = "updated" -> [r EXCEPT !.updated = @ + 1]
    [] result = "skipped" -> r
    [] OTHER -> [r EXCEPT !.errors = @ + 1]

\* variant: an updated track is counted as added too
countResult_updatedTwice(r, result) ==
  CASE result = "created" -> [r EXCEPT !.added = @ + 1]
    [] result = "updated" -> [r EXCEPT !.updated = @ + 1, !.added = @ + 1]
    [] result = "skipped" -> [r EXCEPT !.skipped = @ + 1]
    [] OTHER -> [r EXCEPT !.errors = @ + 1]

\* variant: a track whose sync raised is not counted
countResult_dropsErrors(r, result) ==
  CASE result = "created" -> [r EXCEPT !.added = @ + 1]
    [] result = "updated" -> [r EXCEPT !.updated = @ + 1]
    [] result = "skipped" -> [r EXCEPT !.skipped = @ + 1]
    [] OTHER -> r

\* the per-track counters of syncSpotifyPlaylist / syncAppleMusicPlaylist
countResult(r, result) ==
  CASE result = "created" -> [r EXCEPT !.added = @ + 1]
    [] result = "updated" -> [r EXCEPT !.updated = @ + 1]
    [] result = "skipped" -> [r EXCEPT !.skipped = @ + 1]
    [] OTHER -> [r EXCEPT !.errors = @ + 1]

\* syncAllPlaylists: accumulate one playlist's results by service
\* variant: skipped tracks are left out of the total
accumulate_totalWithoutSkipped(sum, service, r) ==
  [sum EXCEPT
     ![service] = [added |-> @.added + r.added, updated |-> @.updated + r.updated,
                   skipped |-> @.skipped + r.skipped, errors |-> @.errors + r.errors],
     !.total = [processed |-> @.processed + r.added + r.updated,
                successful |-> @.successful + r.added + r.updated,
                skipped |-> @.skipped,
                errors |-> @.errors + r.errors]]

accumulate(sum, service, r) ==
  [sum EXCEPT
     ![service] = [added |-> @.added + r.added, updated |-> @.updated + r.updated,
                   skipped |-> @.skipped + r.skipped, errors |-> @.errors + r.errors],
     !.total = [processed |-> @.processed + r.added + r.updated,
                successful |-> @.successful + r.added + r.updated,
                skipped |-> @.skipped + r.skipped,
                errors |-> @.errors + r.errors]]

\* variant: the error is counted in the total only
countPlaylistError_totalOnly(sum, service) ==
  [sum EXCEPT !.total.errors = @ + 1]

\* syncAllPlaylists: a playlist sync that raised counts one error
countPlaylistError(sum, service) ==
  [sum EXCEPT ![service].errors = @ + 1, !.total.errors = @ + 1]

\* variant: the query has no filter on Removed
activePages_all(s) == queryDatabase(s, Pages(s))

\* cleanupRemovedTracks: the pages whose Removed checkbox equals false
activePages(s) == queryDatabase(s, {r \in Pages(s) : r.removed = FALSE})

\* variant: only the ISRCs are collected
trackIds_isrcOnly(fetched) ==
  UNION {(IF fetched[k].isrc # Absent THEN {fetched[k].isrc} ELSE {})
         : k \in 1..Len(fetched)}

\* cleanupRemovedTracks: the set of current track identifiers
trackIds(fetched) ==
  UNION {(IF fetched[k].isrc # Absent THEN {fetched[k].isrc} ELSE {})
           \cup {titleArtistKey(fetched[k].title, fetched[k].artist)}
         : k \in 1..Len(fetched)}

\* cleanupRemovedTracks: track.artist.toLowerCase() raises when a track's
\* missing artist is undefined (Spotify gave no artists); it does not when
\* the artist is '' (an artist with an empty name), and the key is "title:"
trackIdsRaises(fetched, undefinedArtist) ==
  undefinedArtist /\ \E k \in 1..Len(fetched) : fetched[k].artist = Absent

\* cleanupRemovedTracks: is the page still in a playlist
trackExists(page, ids) ==
  \/ page.isrc # Absent /\ page.isrc \in ids
  \/ /\ page.title # Absent
     /\ page.artist # Absent
     /\ titleArtistKey(page.title, page.artist) \in ids

\* variant: only 'Link Only' counts as manually added
manuallyAdded_linkOnly(page) == page.source = "Link Only"

\* cleanupRemovedTracks: manually added pages are skipped
manuallyAdded(page) == page.source = "Link Only" \/ page.source = "File Upload"

\* variant: a failed removal is counted as marked as well
countCleanup_failedCountsMarked(c, mark, writeOk) ==
  IF ~mark THEN c
  ELSE IF writeOk THEN [c EXCEPT !.marked = @ + 1]
  ELSE [c EXCEPT !.marked = @ + 1, !.errors = @ + 1]

\* cleanupRemovedTracks: the counters of one page: marked after the removal
\* write returned, errors when the page's iteration raised
countCleanup(c, mark, writeOk) ==
  IF ~mark THEN c
  ELSE IF writeOk THEN [c EXCEPT !.marked = @ + 1]
  ELSE [c EXCEPT !.errors = @ + 1]

\* appleMusicClient.processTrackData reads config.playlistTypes[playlistId];
\* config.js exports no playlistTypes, so normalizing any song raises
appleProcessTrackDataRaises == TRUE

\* ---------------------------- spotifyClient.js / appleMusicClient.js: requests
\* expires_in of a refreshed Spotify token, in units of Margin
ExpiresIn == {1, 3}

\* what the API answers to one fetch: 2xx, 429 (or 503 from Apple Music),
\* 401 (or 403 from Apple Music), another status, or fetch rejects
Responses == {"ok", "rateLimit", "auth", "error", "network"}

\* getAccessToken / getDeveloperToken: is the cached token still good at t
tokenValid(n, t) ==
  /\ n.accessToken # Null
  /\ n.tokenExpiry # 0
  /\ IF n.service = "spotify" THEN t < n.tokenExpiry
     ELSE t < n.tokenExpiry - Margin

\* variant: the token's full lifetime is cached as its expiry
storeToken_noMargin(n, t, expiresIn) ==
  [n EXCEPT !.accessToken = 1,
            !.tokenExpiry = IF n.service = "spotify" THEN t + expiresIn
                            ELSE t + AppleLifetime,
            !.expires = IF n.service = "spotify" THEN t + expiresIn
                        ELSE t + AppleLifetime]

\* getAccessToken: tokenExpiry = now + expires_in - 60 s;
\* generateDeveloperToken: tokenExpiry = now + 6 months.
\* expires is when the token really stops being accepted
storeToken(n, t, expiresIn) ==
  [n EXCEPT !.accessToken = 1,
            !.tokenExpiry = IF n.service = "spotify" THEN t + expiresIn - Margin
                            ELSE t + AppleLifetime,
            !.expires = IF n.service = "spotify" THEN t + expiresIn
                        ELSE t + AppleLifetime]

\* the catch of the retry loop: rethrow on the last attempt, else count one
\* retry and wait
catchError(n) ==
  IF n.retryCount = maxRetries - 1 THEN [n EXCEPT !.status = "raised"]
  ELSE [n EXCEPT !.retryCount = @ + 1]

\* variant: a rate-limited attempt is repeated without being counted
onResponse_rateLimitNotCounted(n, response) ==
  CASE response = "ok" -> [n EXCEPT !.status = "returned"]
    [] response = "rateLimit" -> n
    [] response = "auth" -> [n EXCEPT !.accessToken = Null, !.retryCount = @ + 1]
    [] OTHER -> catchError(n)

\* the body of the try after fetch answered
onResponse(n, response) ==
  CASE response = "ok" -> [n EXCEPT !.status = "returned"]
    [] response = "rateLimit" -> [n EXCEPT !.retryCount = @ + 1]
    [] response = "auth" -> [n EXCEPT !.accessToken = Null, !.retryCount = @ + 1]
    [] OTHER -> catchError(n)

\* the while condition fails with nothing returned or thrown: the function
\* ends without a return statement
loopExit(n) ==
  IF n.status = "running" /\ n.retryCount >= maxRetries
  THEN [n EXCEPT !.status = "exhausted"]
  ELSE n

\* one iteration of the retry loop, dt after the previous one: the token
\* (cached, or refreshed with success tokenOk), the fetch, the handling of
\* its answer
requestAttempt(n, dt, tokenOk, expiresIn, response) ==
  LET t == n.now + dt
      m0 == [n EXCEPT !.now = t]
      valid == tokenValid(m0, t)
      m1 == IF valid THEN [m0 EXCEPT !.reused = TRUE]
            ELSE IF tokenOk THEN [storeToken(m0, t, expiresIn) EXCEPT !.reused = FALSE]
            ELSE [m0 EXCEPT !.reused = FALSE]
      m2 == IF ~valid /\ ~tokenOk
            THEN catchError([m1 EXCEPT !.response = "tokenFailure"])
            ELSE onResponse([m1 EXCEPT !.attempts = @ + 1, !.response = response],
                            response)
  IN loopExit(m2)

\* ------------------------------------------------------ webhook-server.js
\* the x-webhook-secret header of a request: not sent, sent empty, sent with
\* another value than WEBHOOK_SECRET, sent with WEBHOOK_SECRET
Headers == {"absent", "empty", "wrong", "right"}

\* req.body: undefined (no body parser applied; express is installed with no
\* pinned version, and version 5 leaves req.body undefined where version 4
\* sets {}), an object without secret, with another secret, with the secret
Bodies == {"undefined", "noSecret", "wrong", "right"}

\* what api.github.com answers to the dispatch: 204, another 2xx status, or
\* axios.post rejects
GitHubAnswers == {"204", "200", "error"}

\* req.headers['x-webhook-secret'] || req.body.secret
receivedSecret(header, body) ==
  IF header \in {"wrong", "right"} THEN header
  ELSE IF body = "undefined" THEN "TypeError"
  ELSE IF body = "noSecret" THEN "absent"
  ELSE body

\* triggerGitHubWorkflow: false without GITHUB_TOKEN, else one POST to
\* /dispatches and whether it was answered 204
triggerGitHubWorkflow(tokenSet, github) ==
  IF ~tokenSet THEN [success |-> FALSE, dispatched |-> FALSE]
  ELSE [success |-> github = "204", dispatched |-> TRUE]

\* app.post('/notion-webhook'): the status of the response and whether a
\* repository_dispatch was issued
notionWebhook(configured, header, body, tokenSet, github) ==
  IF configured /\ receivedSecret(header, body) = "TypeError"
  THEN [response |-> 500, dispatched |-> FALSE]
  ELSE IF configured /\ receivedSecret(header, body) # "right"
  THEN [response |-> 401, dispatched |-> FALSE]
  ELSE LET r == triggerGitHubWorkflow(tokenSet, github)
       IN [response |-> IF r.success THEN 200 ELSE 500, dispatched |-> r.dispatched]

\* the opaque identifier of the k-th configured playlist
playlistId(k) == <<"p">> \o toString(k)

\* display names getPlaylist may return
PlaylistNames == {<<"N">>, <<"M", "x">>}

\* processTrackData(track, playlistId) of a client, for an item with the
\* identity fields of track: nameOk is whether getPlaylist answers, name is
\* what it answers. Spotify's catches the failure of getPlaylist and falls
\* back to the id; Apple Music's has the same code behind a line that raises
processTrackData(service, track, k, name, nameOk) ==
  IF service = "appleMusic" /\ appleProcessTrackDataRaises
  THEN [raised |-> TRUE, trackData |-> track]
  ELSE [raised |-> FALSE,
        trackData |-> [title |-> track.title, artist |-> track.artist,
                       isrc |-> track.isrc,
                       playlist |-> IF nameOk THEN name ELSE playlistId(k)]]

\* getPlaylistTracks of a service: does the fetch of these live tracks raise
fetchRaises(service, content) ==
  service = "appleMusic" /\ Len(content) > 0 /\ appleProcessTrackDataRaises

\* cleanupRemovedTracks: the playlists whose re-fetch raised (caught and
\* logged); fetchOk[k] is whether the service answered for playlist k
refetchFailed(lv, fetchOk) ==
  {k \in 1..Len(Playlists) : ~fetchOk[k] \/ fetchRaises(Playlists[k], lv[k])}

\* variant: a playlist whose re-fetch raised still contributes its tracks
currentTracks_keepsFailed(lv, fetchOk) == lv[1] \o lv[2]

\* cleanupRemovedTracks: [...currentSpotifyTracks, ...currentAppleTracks]
currentTracks(lv, fetchOk) ==
  LET got(k) == IF k \in refetchFailed(lv, fetchOk) THEN <<>> ELSE lv[k]
  IN got(1) \o got(2)

\* ------------------------------------------------------------ the machine
SeqsUpTo(S, n) == UNION {[1..m -> S] : m \in 0..n}

\* pages found in the database before the first run: left by earlier runs
\* (removed or not) or entered by hand (a manual Source), all annotated
InitPages ==
  {Page(1, t.title, t.artist, t.isrc, removed, NoSource, <<"n">>, <<"m">>) :
     t \in PlaylistTracks, removed \in BOOLEAN}
  \cup
  {Page(1, t.title, t.artist, t.isrc, FALSE, source, <<"n">>, <<"m">>) :
     t \in {Track(<<"a">>, <<"x">>, <<"i">>), Track(<<"a", "b">>, <<"X", "y">>, Absent)},
     source \in ManualSources}

InitSinks == {<<>>} \cup {<<pg>> : pg \in InitPages}

AppleTrack == Track(<<"a">>, <<"x">>, <<"i">>)

InitLive ==
  {<<sp, ap>> : sp \in SeqsUpTo(PlaylistTracks, MaxTracks), ap \in {<<>>, <<AppleTrack>>}}

\* no request is in flight and no token is cached
NoNet ==
  [service |-> "none", status |-> "idle", retryCount |-> 0, attempts |-> 0,
   accessToken |-> Null, tokenExpiry |-> 0, expires |-> 0, now |-> 0,
   response |-> "none", reused |-> FALSE, calls |-> 0]

\* the webhook server has no request to answer
NoHook == [status |-> "idle"]

\* what a step did: the track or page it handled, the lookups' outcome
Step(kind, track, existing, via, result, isrcOk, titleOk, page) ==
  [kind |-> kind, track |-> track, existing |-> existing, via |-> via,
   result |-> result, isrcOk |-> isrcOk, titleOk |-> titleOk, page |-> page]

NoStep == Step("none", AppleTrack, Null, "none", "none", TRUE, TRUE, Null)

\* does the page match the track by the ISRC key / by the title-artist key
matchesIsrc(t, page) == t.isrc # Absent /\ includes(page.isrc, t.isrc)

matchesTitleArtist(t, page) ==
  /\ t.title # Absent
  /\ t.artist # Absent
  /\ page.artist # Absent
  /\ includes(page.title, t.title)
  /\ includes(toLowerCase(page.artist), toLowerCase(t.artist))

\* the kind of a track against a database: "k" its ISRC is present,
\* "m" no page matches it by either key, "f" a title-artist match only
trackKind(t, s) ==
  IF \E n \in 1..Len(s) : matchesIsrc(t, s[n]) THEN "k"
  ELSE IF \E n \in 1..Len(s) : matchesTitleArtist(t, s[n]) THEN "f"
  ELSE "m"

NoHist ==
  [sink0 |-> <<>>, clean |-> TRUE, k |-> 0, m |-> 0, f |-> 0, failedAt |-> 0,
   refetchFailed |-> {}, origin |-> <<>>, cancelled |-> FALSE, cleanups |-> 0,
   resolved |-> {}, created |-> {}]

\* the facts about a run that a playlist sync does not start afresh
KeepRun(h, s) ==
  [NoHist EXCEPT !.sink0 = s, !.origin = h.origin, !.cancelled = h.cancelled,
                 !.cleanups = h.cleanups, !.resolved = h.resolved,
                 !.created = h.created]

Init ==
  /\ mode \in {"Update", "Preserve"}
  /\ dryRun \in BOOLEAN
  /\ sink \in InitSinks
  /\ live \in InitLive
  /\ pc = "idle"
  /\ p = 0
  /\ tracks = <<>>
  /\ i = 0
  /\ results = ZeroResults
  /\ summary = ZeroSummary
  /\ allNotionTracks = <<>>
  /\ currentTrackIds = {}
  /\ j = 0
  /\ cleanup = [marked |-> 0, errors |-> 0]
  /\ outcome = "none"
  /\ runs = 0
  /\ faults = 0
  /\ last = NoStep
  /\ hist = NoHist
  /\ net = NoNet /\ hook = NoHook

\* fullSync is entered; syncAllPlaylists starts with a fresh summary
FullSyncStart ==
  /\ pc = "idle"
  /\ runs < MaxRuns
  /\ runs' = runs + 1
  /\ pc' = "playlists"
  /\ p' = 1
  /\ summary' = ZeroSummary
  /\ cleanup' = [marked |-> 0, errors |-> 0]
  /\ outcome' = "none"
  /\ last' = NoStep
  /\ hist' = [hist EXCEPT !.cleanups = 0, !.resolved = {}, !.created = {}]
  /\ UNCHANGED <<mode, dryRun, sink, live, tracks, i, results,
                 allNotionTracks, currentTrackIds, j, faults>>
  /\ UNCHANGED <<net, hook>>

\* variant: the loop stops after the first playlist
playlistsLeft_firstOnly(n) == n <= 1

\* the loop of syncAllPlaylists has a playlist left when n playlists minus
\* one are behind it
playlistsLeft(n) == n <= Len(Playlists)

\* variant: a failing metadata request does not stop the playlist
playlistStart_ignoresMetadata(healthy, metaOk, fetchOk, service, content) ==
  IF ~healthy THEN "unhealthy"
  ELSE IF ~fetchOk \/ fetchRaises(service, content) THEN "fetchFailed"
  ELSE "started"

\* how far a playlist sync gets before its track loop: the health check, then
\* getPlaylist, then getPlaylistTracks, the first failure raising
playlistStart(healthy, metaOk, fetchOk, service, content) ==
  IF ~healthy THEN "unhealthy"
  ELSE IF ~metaOk THEN "metadataFailed"
  ELSE IF ~fetchOk \/ fetchRaises(service, content) THEN "fetchFailed"
  ELSE "started"

\* syncSpotifyPlaylist / syncAppleMusicPlaylist up to the track loop:
\* health check, playlist metadata, all tracks
PlaylistStart ==
  /\ pc = "playlists"
  /\ playlistsLeft(p)
  /\ \E healthy, metaOk, fetchOk \in BOOLEAN :
       LET ok == healthy /\ metaOk /\ fetchOk
           start == playlistStart(healthy, metaOk, fetchOk, Playlists[p], live[p])
           started == start = "started"
       IN /\ ~ok => faults < MaxFaults
          /\ ~healthy => metaOk /\ fetchOk
          /\ ~metaOk => fetchOk
          /\ faults' = IF ok THEN faults ELSE faults + 1
          /\ IF started
             THEN /\ pc' = "tracks"
                  /\ tracks' = live[p]
                  /\ i' = 1
                  /\ results' = ZeroResults
                  /\ hist' = KeepRun(hist, sink)
                  /\ UNCHANGED <<p, summary>>
             ELSE /\ summary' = countPlaylistError(summary, Playlists[p])
                  /\ p' = p + 1
                  /\ UNCHANGED <<pc, tracks, i, results, hist>>
          /\ last' = Step("playlist", AppleTrack, Null, "none", start, TRUE, TRUE, p)
  /\ UNCHANGED <<mode, dryRun, sink, live, allNotionTracks, currentTrackIds,
                 j, cleanup, outcome, runs>>
  /\ UNCHANGED <<net, hook>>

\* one iteration of the track loop: syncTrackToNotion and the counters
SyncTrack ==
  /\ pc = "tracks"
  /\ i <= Len(tracks)
  /\ \E isrcOk, titleOk, writeOk \in BOOLEAN :
       LET t == tracks[i]
           isrcIssued == t.isrc # Absent
           byIsrc == findTrackByIsrc(sink, t.isrc, isrcOk)
           titleIssued == byIsrc = Null /\ t.title # Absent /\ t.artist # Absent
           existing == existingTrack(sink, t, isrcOk, titleOk)
           writeIssued == ~dryRun /\ (existing = Null \/ mode = "Update")
           failed == (IF ~isrcOk THEN 1 ELSE 0) + (IF ~titleOk THEN 1 ELSE 0)
                       + (IF ~writeOk THEN 1 ELSE 0)
           result == IF writeOk THEN upsertResult(mode, existing) ELSE "error"
       IN /\ ~isrcOk => isrcIssued
          /\ ~titleOk => titleIssued
          /\ ~writeOk => writeIssued
          /\ faults + failed <= MaxFaults
          /\ faults' = faults + failed
          /\ sink' = IF writeOk THEN upsertSink(mode, sink, existing, t, dryRun)
                     ELSE sink
          /\ results' = countResult(results, result)
          /\ last' = Step("track", t, existing,
                           matchedVia(sink, t, isrcOk, titleOk), result,
                           isrcOk, titleOk, Null)
          /\ hist' = [hist EXCEPT !.clean = @ /\ failed = 0,
                                  ![trackKind(t, sink)] = @ + 1,
                                  !.failedAt = IF writeOk THEN @ ELSE i,
                                  !.resolved = IF existing # Null
                                               THEN @ \cup {existing} ELSE @,
                                  !.created = IF Len(sink') > Len(sink)
                                                 /\ t.artist # Absent
                                              THEN @ \cup {Len(sink')} ELSE @]
  /\ i' = i + 1
  /\ UNCHANGED <<mode, dryRun, live, pc, p, tracks, summary, allNotionTracks,
                 currentTrackIds, j, cleanup, outcome, runs>>
  /\ UNCHANGED <<net, hook>>

\* the playlist sync returns its results; syncAllPlaylists accumulates them
PlaylistEnd ==
  /\ pc = "tracks"
  /\ i > Len(tracks)
  /\ summary' = accumulate(summary, Playlists[p], results)
  /\ p' = p + 1
  /\ pc' = "playlists"
  /\ last' = NoStep
  /\ UNCHANGED <<mode, dryRun, sink, live, tracks, i, results, allNotionTracks,
                 currentTrackIds, j, cleanup, outcome, runs, faults, hist>>
  /\ UNCHANGED <<net, hook>>

\* cleanupRemovedTracks up to the page loop: query the pages that are not
\* removed, re-fetch every configured playlist, build the identifier set
CleanupStart ==
  /\ pc = "playlists"
  /\ ~playlistsLeft(p)
  /\ \E queryOk, undefinedArtist \in BOOLEAN, fetchOk \in [1..Len(Playlists) -> BOOLEAN] :
       LET failed == (IF queryOk THEN 0 ELSE 1)
                       + Cardinality({k \in 1..Len(Playlists) : ~fetchOk[k]})
           fetched == currentTracks(live, fetchOk)
           start == IF ~queryOk THEN "queryFailed"
                    ELSE IF trackIdsRaises(fetched, undefinedArtist) THEN "keyRaised"
                    ELSE "started"
       IN /\ faults + failed <= MaxFaults
          /\ ~queryOk => \A k \in 1..Len(Playlists) : fetchOk[k]
          /\ faults' = faults + failed
          /\ IF ~queryOk \/ trackIdsRaises(fetched, undefinedArtist)
             THEN /\ pc' = "idle"
                  /\ outcome' = "raised"
                  /\ UNCHANGED <<allNotionTracks, currentTrackIds, j>>
             ELSE /\ pc' = "cleanup"
                  /\ allNotionTracks' = activePages(sink)
                  /\ currentTrackIds' = trackIds(fetched)
                  /\ j' = 1
                  /\ UNCHANGED outcome
          /\ last' = Step("cleanup", AppleTrack, Null, "none", start, TRUE, TRUE, Null)
          /\ hist' = [hist EXCEPT !.refetchFailed =
                        IF queryOk THEN refetchFailed(live, fetchOk) ELSE {},
                                  !.cleanups = @ + 1]
  /\ UNCHANGED <<mode, dryRun, sink, live, p, tracks, i, results, summary,
                 cleanup, runs>>
  /\ UNCHANGED <<net, hook>>

\* one iteration of the page loop of cleanupRemovedTracks
CleanupPage ==
  /\ pc = "cleanup"
  /\ j <= Len(allNotionTracks)
  /\ \E writeOk \in BOOLEAN :
       LET page == allNotionTracks[j]
           mark == ~manuallyAdded(page) /\ ~trackExists(page, currentTrackIds)
       IN /\ ~writeOk => (mark /\ ~dryRun /\ faults < MaxFaults)
          /\ faults' = IF writeOk THEN faults ELSE faults + 1
          /\ sink' = IF mark /\ writeOk
                     THEN markTrackRemoved(sink, page.id, dryRun) ELSE sink
          /\ cleanup' = countCleanup(cleanup, mark, writeOk)
          /\ last' = Step("page", AppleTrack, Null, "none",
                           IF ~mark THEN "kept"
                           ELSE IF writeOk THEN "marked" ELSE "error",
                           TRUE, TRUE, page.id)
  /\ j' = j + 1
  /\ UNCHANGED <<mode, dryRun, live, pc, p, tracks, i, results, summary,
                 allNotionTracks, currentTrackIds, outcome, runs, hist>>
  /\ UNCHANGED <<net, hook>>

\* cleanupRemovedTracks returns its results and fullSync returns
FullSyncDone ==
  /\ pc = "cleanup"
  /\ j > Len(allNotionTracks)
  /\ pc' = "idle"
  /\ outcome' = "returned"
  /\ last' = NoStep
  /\ UNCHANGED <<mode, dryRun, sink, live, p, tracks, i, results, summary,
                 allNotionTracks, currentTrackIds, j, cleanup, runs, faults, hist>>
  /\ UNCHANGED <<net, hook>>

Next ==
  \/ FullSyncStart
  \/ PlaylistStart
  \/ SyncTrack
  \/ PlaylistEnd
  \/ CleanupStart
  \/ CleanupPage
  \/ FullSyncDone

Spec == Init /\ [][Next]_vars

\* ----------------------------------------- a run that follows a cancelled one
\* the database after the track loops of a run in which nothing fails:
\* syncTrackToNotion over the tracks ts from the n-th on
RECURSIVE syncTracksSink(_, _, _, _, _)
syncTracksSink(s, ts, n, m, dry) ==
  IF n > Len(ts) THEN s
  ELSE syncTracksSink(upsertSink(m, s, existingTrack(s, ts[n], TRUE, TRUE), ts[n], dry),
                      ts, n + 1, m, dry)

\* the database after the page loop of a cleanup in which nothing fails
cleanupSink(s, ids, dry) ==
  [k \in 1..Len(s) |->
     IF ~dry /\ ~s[k].removed /\ ~manuallyAdded(s[k]) /\ ~trackExists(s[k], ids)
     THEN [s[k] EXCEPT !.removed = TRUE]
     ELSE s[k]]

\* the database after a fullSync that runs to its end and in which nothing
\* fails (a missing artist being '')
fullSyncSink(s, lv, m, dry) ==
  LET fetched == currentTracks(lv, [k \in 1..Len(Playlists) |-> TRUE])
  IN cleanupSink(syncTracksSink(s, fetched, 1, m, dry), trackIds(fetched), dry)

\* no external call fails in these runs: the budget of failures is used up
InitRerun ==
  /\ mode \in {"Update", "Preserve"}
  /\ dryRun \in BOOLEAN
  /\ sink \in InitSinks
  /\ live \in InitLive
  /\ pc = "idle"
  /\ p = 0
  /\ tracks = <<>>
  /\ i = 0
  /\ results = ZeroResults
  /\ summary = ZeroSummary
  /\ allNotionTracks = <<>>
  /\ currentTrackIds = {}
  /\ j = 0
  /\ cleanup = [marked |-> 0, errors |-> 0]
  /\ outcome = "none"
  /\ runs = 0
  /\ faults = MaxFaults
  /\ last = NoStep
  /\ hist = [NoHist EXCEPT !.origin = sink]
  /\ net = NoNet /\ hook = NoHook

\* the process is stopped in the middle of its first run, between two steps:
\* the writes made so far stay in the database
Cancel ==
  /\ pc \in {"playlists", "tracks", "cleanup"}
  /\ runs = 1
  /\ pc' = "idle"
  /\ outcome' = "cancelled"
  /\ last' = NoStep
  /\ hist' = [hist EXCEPT !.cancelled = TRUE]
  /\ UNCHANGED <<mode, dryRun, sink, live, p, tracks, i, results, summary,
                 allNotionTracks, currentTrackIds, j, cleanup, runs, faults>>
  /\ UNCHANGED <<net, hook>>

NextRerun ==
  \/ FullSyncStart
  \/ PlaylistStart
  \/ SyncTrack
  \/ PlaylistEnd
  \/ CleanupStart
  \/ CleanupPage
  \/ FullSyncDone
  \/ Cancel

SpecRerun == InitRerun /\ [][NextRerun]_vars

\* ------------------------------------- cleanupRemovedTracks called twice
\* databases of up to MaxPages pages, ids in creation order
CleanupSinks ==
  InitSinks \cup {<<a, [b EXCEPT !.id = 2]>> : a \in InitPages, b \in InitPages}

\* the cleanup does not depend on the orchestrator's mode
InitCleanup ==
  /\ mode = "Preserve"
  /\ dryRun \in BOOLEAN
  /\ sink \in CleanupSinks
  /\ live \in InitLive
  /\ pc = "idle"
  /\ p = 0
  /\ tracks = <<>>
  /\ i = 0
  /\ results = ZeroResults
  /\ summary = ZeroSummary
  /\ allNotionTracks = <<>>
  /\ currentTrackIds = {}
  /\ j = 0
  /\ cleanup = [marked |-> 0, errors |-> 0]
  /\ outcome = "none"
  /\ runs = 0
  /\ faults = 0
  /\ last = NoStep
  /\ hist = [NoHist EXCEPT !.origin = sink]
  /\ net = NoNet /\ hook = NoHook

\* cleanupRemovedTracks is called, with a results object of its own; the
\* second call follows a first one that returned
CleanupCall ==
  /\ pc = "idle"
  /\ runs < MaxRuns
  /\ runs = 0 \/ outcome = "returned"
  /\ runs' = runs + 1
  /\ pc' = "playlists"
  /\ p' = Len(Playlists) + 1
  /\ cleanup' = [marked |-> 0, errors |-> 0]
  /\ outcome' = "none"
  /\ last' = NoStep
  /\ UNCHANGED <<mode, dryRun, sink, live, tracks, i, results, summary,
                 allNotionTracks, currentTrackIds, j, faults, hist>>
  /\ UNCHANGED <<net, hook>>

NextCleanup ==
  \/ CleanupCall
  \/ CleanupStart
  \/ CleanupPage
  \/ FullSyncDone

SpecCleanup == InitCleanup /\ [][NextCleanup]_vars

\* ------------------------------------------- one playlist sync on its own
\* syncSpotifyPlaylist over a playlist of up to MaxScenarioTracks tracks
InitPlaylist ==
  /\ mode \in {"Update", "Preserve"}
  /\ dryRun \in BOOLEAN
  /\ sink \in InitSinks
  /\ live \in {<<sp, <<>>>> : sp \in SeqsUpTo(PlaylistTracks, MaxScenarioTracks)}
  /\ pc = "playlists"
  /\ p = 1
  /\ tracks = <<>>
  /\ i = 0
  /\ results = ZeroResults
  /\ summary = ZeroSummary
  /\ allNotionTracks = <<>>
  /\ currentTrackIds = {}
  /\ j = 0
  /\ cleanup = [marked |-> 0, errors |-> 0]
  /\ outcome = "none"
  /\ runs = 1
  /\ faults = 0
  /\ last = NoStep
  /\ hist = NoHist
  /\ net = NoNet /\ hook = NoHook

NextPlaylist ==
  \/ PlaylistStart
  \/ SyncTrack
  \/ PlaylistEnd

SpecPlaylist == InitPlaylist /\ [][NextPlaylist]_vars

\* ------------------------------------------ identity resolution on its own
\* databases of up to MaxPages pages over every combination of the fields
ResolveSinks ==
  UNION {{[k \in 1..n |-> Page(k, f[k].title, f[k].artist, f[k].isrc,
                               FALSE, NoSource, Absent, Absent)] :
            f \in [1..n -> Tracks]} : n \in 0..MaxPages}

InitResolve ==
  /\ mode = "Preserve"
  /\ dryRun = FALSE
  /\ sink \in ResolveSinks
  /\ live = <<<<>>, <<>>>>
  /\ pc = "resolve"
  /\ p = 0
  /\ tracks = <<>>
  /\ i = 0
  /\ results = ZeroResults
  /\ summary = ZeroSummary
  /\ allNotionTracks = <<>>
  /\ currentTrackIds = {}
  /\ j = 0
  /\ cleanup = [marked |-> 0, errors |-> 0]
  /\ outcome = "none"
  /\ runs = 0
  /\ faults = 0
  /\ last = NoStep
  /\ hist = NoHist
  /\ net = NoNet /\ hook = NoHook

\* syncTrackToNotion resolves one track against the database
Lookup ==
  /\ pc = "resolve"
  /\ \E t \in Tracks, isrcOk, titleOk \in BOOLEAN :
       /\ ~isrcOk => t.isrc # Absent
       /\ ~titleOk => /\ findTrackByIsrc(sink, t.isrc, isrcOk) = Null
                      /\ t.artist # Absent
       /\ last' = Step("lookup", t, existingTrack(sink, t, isrcOk, titleOk),
                       matchedVia(sink, t, isrcOk, titleOk), "none",
                       isrcOk, titleOk, Null)
  /\ pc' = "resolved"
  /\ UNCHANGED <<mode, dryRun, sink, live, p, tracks, i, results, summary,
                 allNotionTracks, currentTrackIds, j, cleanup, outcome, runs,
                 faults, hist>>
  /\ UNCHANGED <<net, hook>>

NextResolve == Lookup

SpecResolve == InitResolve /\ [][NextResolve]_vars

\* ------------------------------------------------ the webhook server
\* WEBHOOK_SECRET and GITHUB_TOKEN are read from the environment at start
InitWebhook ==
  /\ mode = "Preserve"
  /\ dryRun = FALSE
  /\ sink = <<>>
  /\ live = <<<<>>, <<>>>>
  /\ pc = "listening"
  /\ p = 0
  /\ tracks = <<>>
  /\ i = 0
  /\ results = ZeroResults
  /\ summary = ZeroSummary
  /\ allNotionTracks = <<>>
  /\ currentTrackIds = {}
  /\ j = 0
  /\ cleanup = [marked |-> 0, errors |-> 0]
  /\ outcome = "none"
  /\ runs = 0
  /\ faults = 0
  /\ last = NoStep
  /\ hist = NoHist
  /\ net = NoNet
  /\ hook \in {[status |-> "idle", configured |-> c, tokenSet |-> t, posts |-> 0] :
                 c \in BOOLEAN, t \in BOOLEAN}

\* one POST /notion-webhook is received and answered
WebhookPost ==
  /\ pc = "listening"
  /\ hook.posts < MaxPosts
  /\ \E header \in Headers, body \in Bodies, github \in GitHubAnswers :
       LET r == notionWebhook(hook.configured, header, body, hook.tokenSet, github)
       IN hook' = [status |-> "answered", configured |-> hook.configured,
                   tokenSet |-> hook.tokenSet, posts |-> hook.posts + 1,
                   header |-> header, body |-> body, github |-> github,
                   response |-> r.response, dispatched |-> r.dispatched]
  /\ UNCHANGED <<mode, dryRun, sink, live, pc, p, tracks, i, results, summary,
                 allNotionTracks, currentTrackIds, j, cleanup, outcome, runs,
                 faults, last, hist, net>>

NextWebhook ==
  \/ WebhookPost

SpecWebhook == InitWebhook /\ [][NextWebhook]_vars

\* ------------------------------- spotifyRequest / appleMusicRequest calls
InitRequest ==
  /\ mode = "Preserve"
  /\ dryRun = FALSE
  /\ sink = <<>>
  /\ live = <<<<>>, <<>>>>
  /\ pc = "request"
  /\ p = 0
  /\ tracks = <<>>
  /\ i = 0
  /\ results = ZeroResults
  /\ summary = ZeroSummary
  /\ allNotionTracks = <<>>
  /\ currentTrackIds = {}
  /\ j = 0
  /\ cleanup = [marked |-> 0, errors |-> 0]
  /\ outcome = "none"
  /\ runs = 0
  /\ faults = 0
  /\ last = NoStep
  /\ hist = NoHist
  /\ net \in {[NoNet EXCEPT !.service = svc] : svc \in {"spotify", "appleMusic"}}
  /\ hook = NoHook

\* a caller awaits spotifyRequest(url) / appleMusicRequest(url); the token
\* cache is the module's and outlives the call
RequestStart ==
  /\ pc = "request"
  /\ net.status # "running"
  /\ net.calls < MaxCalls
  /\ \E dt \in 0..1 :
       /\ net.now + dt <= MaxTime
       /\ net' = [net EXCEPT !.status = "running", !.retryCount = 0, !.attempts = 0,
                             !.response = "none", !.reused = FALSE,
                             !.calls = @ + 1, !.now = @ + dt]
  /\ UNCHANGED <<mode, dryRun, sink, live, pc, p, tracks, i, results, summary,
                 allNotionTracks, currentTrackIds, j, cleanup, outcome, runs,
                 faults, last, hist, hook>>

\* one iteration of the while loop of the request
RequestAttempt ==
  /\ pc = "request"
  /\ net.status = "running"
  /\ net.retryCount < maxRetries
  /\ net.attempts <= maxRetries
  /\ \E dt \in 0..1, tokenOk \in BOOLEAN, expiresIn \in ExpiresIn,
        response \in Responses :
       /\ net.now + dt <= MaxTime
       /\ net' = requestAttempt(net, dt, tokenOk, expiresIn, response)
  /\ UNCHANGED <<mode, dryRun, sink, live, pc, p, tracks, i, results, summary,
                 allNotionTracks, currentTrackIds, j, cleanup, outcome, runs,
                 faults, last, hist, hook>>

NextRequest ==
  \/ RequestStart
  \/ RequestAttempt

SpecRequest == InitRequest /\ [][NextRequest]_vars

\* timers fire and fetch settles: an iteration that can run does run
SpecRequestFair == SpecRequest /\ WF_vars(RequestAttempt)

\* ------------------------------------ getPlaylistTracks of one playlist
\* what a page request (spotifyRequest / appleMusicRequest) gives
\* getPlaylistTracks: the page, a raise, or undefined (the retry loop left
\* without return), on which data.items / data.data raises a TypeError
PageAnswers == {"data", "raised", "undefined"}

\* the playlist as the service pages it: one page at least, each with the
\* items of type track / songs it holds
PlaylistPages ==
  UNION {[1..n -> SeqsUpTo(PlaylistTracks, MaxTracks)] : n \in 1..MaxPlaylistPages}

\* variant: the link to the next page is never followed
nextLink_firstPageOnly(pages, k) == Null

\* data.next of page k: the next page, or null on the last one
nextLink(pages, k) == IF k < Len(pages) THEN k + 1 ELSE Null

\* the items of all pages, in page order
RECURSIVE allItems(_)
allItems(pages) ==
  IF pages = <<>> THEN <<>> ELSE Head(pages) \o allItems(Tail(pages))

\* the k-th configured playlist is p, nextUrl is the page to request next,
\* the items of the page being processed are in tracks, the normalized
\* tracks are collected in results
InitNormalize ==
  /\ mode \in {"Update", "Preserve"}
  /\ dryRun = FALSE
  /\ sink = <<>>
  /\ live = <<<<>>, <<>>>>
  /\ pc = "normalize"
  /\ p \in 1..Len(Playlists)
  /\ tracks = <<>>
  /\ i = 1
  /\ results = <<>>
  /\ summary = ZeroSummary
  /\ allNotionTracks = <<>>
  /\ currentTrackIds = {}
  /\ j = 0
  /\ cleanup = [marked |-> 0, errors |-> 0]
  /\ outcome = "none"
  /\ runs = 0
  /\ faults = 0
  /\ last = NoStep
  /\ hist = NoHist
  /\ net \in {[pages |-> ps, nextUrl |-> 1, getPlaylistCalls |-> 0] : ps \in PlaylistPages}
  /\ hook = NoHook

\* while (nextUrl): the request of the next page; its items become the ones
\* to process and nextUrl becomes data.next; a failed request leaves
\* getPlaylistTracks through its catch, which rethrows
FetchPage ==
  /\ pc = "normalize"
  /\ i > Len(tracks)
  /\ net.nextUrl # Null
  /\ \E answer \in PageAnswers :
       /\ last' = Step("request", AppleTrack, Null, answer,
                       IF answer = "data" THEN "returned" ELSE "raised",
                       TRUE, TRUE, net.nextUrl)
       /\ IF answer = "data"
          THEN /\ tracks' = net.pages[net.nextUrl]
               /\ i' = 1
               /\ net' = [net EXCEPT !.nextUrl = nextLink(net.pages, net.nextUrl)]
               /\ UNCHANGED <<pc, outcome>>
          ELSE /\ pc' = "idle"
               /\ outcome' = "raised"
               /\ UNCHANGED <<tracks, i, net>>
  /\ UNCHANGED <<mode, dryRun, sink, live, p, results, summary, allNotionTracks,
                 currentTrackIds, j, cleanup, runs, faults, hist, hook>>

\* one item of the page: processTrackData, the result pushed on the list; a
\* raise leaves the loop and getPlaylistTracks rethrows it
NormalizeTrack ==
  /\ pc = "normalize"
  /\ i <= Len(tracks)
  /\ \E nameOk \in BOOLEAN, name \in PlaylistNames :
       LET r == processTrackData(Playlists[p], tracks[i], p, name, nameOk)
       IN /\ ~nameOk => name = <<"N">>
          /\ last' = Step("normalize", r.trackData, Null,
                          IF nameOk THEN "nameFetched" ELSE "nameFailed",
                          IF r.raised THEN "raised" ELSE "returned",
                          TRUE, TRUE, p)
          /\ IF r.raised
             THEN /\ pc' = "idle"
                  /\ outcome' = "raised"
                  /\ UNCHANGED <<i, results, net>>
             ELSE /\ results' = Append(results, r.trackData)
                  /\ i' = i + 1
                  /\ net' = [net EXCEPT !.getPlaylistCalls = @ + 1]
                  /\ UNCHANGED <<pc, outcome>>
  /\ UNCHANGED <<mode, dryRun, sink, live, p, tracks, summary, allNotionTracks,
                 currentTrackIds, j, cleanup, runs, faults, hist>>
  /\ UNCHANGED hook

\* no item and no page is left: getPlaylistTracks returns the list
NormalizeDone ==
  /\ pc = "normalize"
  /\ i > Len(tracks)
  /\ net.nextUrl = Null
  /\ pc' = "idle"
  /\ outcome' = "returned"
  /\ last' = NoStep
  /\ UNCHANGED <<mode, dryRun, sink, live, p, tracks, i, results, summary,
                 allNotionTracks, currentTrackIds, j, cleanup, runs, faults, hist>>
  /\ UNCHANGED <<net, hook>>

NextNormalize ==
  \/ FetchPage
  \/ NormalizeTrack
  \/ NormalizeDone

SpecNormalize == InitNormalize /\ [][NextNormalize]_vars

\* ------------------------------------------- one sink write on its own
\* processTrackData: Math.round(duration_ms / 1000), or null without a
\* duration_ms; rounding gives 0 for a track of under half a second
Durations == {<<>>} \cup {<<n>> : n \in {0, 1, 9, 10, 59, 60, 61, 119, 600, 3599, 3600}}

\* track data as the two clients normalize it: Spotify's carries no composer,
\* Apple Music's carries attrs.composerName when the song has one
WriteInputs ==
  Tracks \cup
  {[title |-> t.title, artist |-> t.artist, isrc |-> t.isrc, composer |-> <<"c">>] :
     t \in Tracks} \cup
  {[title |-> t.title, artist |-> t.artist, isrc |-> t.isrc, duration |-> d] :
     t \in Tracks, d \in Durations}

InitWrite ==
  /\ mode \in {"Update", "Preserve"}
  /\ dryRun \in BOOLEAN
  /\ sink \in InitSinks
  /\ live = <<<<>>, <<>>>>
  /\ pc = "write"
  /\ p = 0
  /\ tracks = <<>>
  /\ i = 0
  /\ results = ZeroResults
  /\ summary = ZeroSummary
  /\ allNotionTracks = <<>>
  /\ currentTrackIds = {}
  /\ j = 0
  /\ cleanup = [marked |-> 0, errors |-> 0]
  /\ outcome = "none"
  /\ runs = 0
  /\ faults = 0
  /\ last = NoStep
  /\ hist = NoHist
  /\ net = NoNet /\ hook = NoHook

\* notionClient.updateTrack(pageId, trackData) on a page of the database
WriteUpdate ==
  /\ pc = "write"
  /\ \E trackData \in WriteInputs, pageId \in 1..Len(sink) :
       /\ sink' = updateTrack(sink, pageId, trackData, dryRun)
       /\ last' = Step("update", trackData, pageId, "none", "updated",
                       TRUE, TRUE, pageId)
  /\ pc' = "written"
  /\ UNCHANGED <<mode, dryRun, live, p, tracks, i, results, summary,
                 allNotionTracks, currentTrackIds, j, cleanup, outcome, runs,
                 faults, hist>>
  /\ UNCHANGED <<net, hook>>

\* notionClient.createTrack(trackData)
WriteCreate ==
  /\ pc = "write"
  /\ \E trackData \in WriteInputs :
       /\ sink' = createTrack(sink, trackData, dryRun)
       /\ last' = Step("create", trackData, Null, "none", "created",
                       TRUE, TRUE, Null)
  /\ pc' = "written"
  /\ UNCHANGED <<mode, dryRun, live, p, tracks, i, results, summary,
                 allNotionTracks, currentTrackIds, j, cleanup, outcome, runs,
                 faults, hist>>
  /\ UNCHANGED <<net, hook>>

NextWrite ==
  \/ WriteUpdate
  \/ WriteCreate

SpecWrite == InitWrite /\ [][NextWrite]_vars

\* ================================================================= claims
\* a step of the machine that processed one track of the playlist
TrackStep == pc = "tracks" /\ pc' = "tracks" /\ i' = i + 1

\* the playlist's track loop has finished and its results are complete
LoopDone == pc = "tracks" /\ i > Len(tracks)

Newest(S) == CHOOSE n \in S : \A q \in S : q <= n

\* C1: no page is ever deleted: across every step of syncs and cleanups the
\* database keeps every page under its id, and the only way a page becomes
\* removed is a cleanup step that changes nothing but its removed flag to TRUE
C1_NeverDeleted ==
  [][/\ Len(sink') >= Len(sink)
     /\ \A k \in 1..Len(sink) :
          /\ sink'[k].id = sink[k].id
          /\ pc = "cleanup" =>
               \/ sink'[k] = sink[k]
               \/ sink'[k] = [sink[k] EXCEPT !.removed = TRUE]
          /\ (~sink[k].removed /\ sink'[k].removed) => pc = "cleanup"
     /\ pc = "cleanup" => Len(sink') = Len(sink)]_vars

\* a cleanup has flagged a page and the sync has created pages
C1_Witness ==
  /\ last.kind = "page"
  /\ last.result = "marked"
  /\ ~dryRun
  /\ sink[last.page].removed
  /\ Len(sink) >= 2

\* C2: a cleanup step never marks a page (in the database or, in a dry run,
\* in its report) whose ISRC or whose lowercased title:artist key is in the
\* set of live identifiers
C2_LivePagesKept ==
  [][\A k \in 1..Len(sink) :
       (/\ pc = "cleanup"
        /\ \/ ~sink[k].removed /\ sink'[k].removed
           \/ last'.kind = "page" /\ last'.page = k /\ last'.result \in {"marked", "error"})
       => /\ sink[k].isrc \notin currentTrackIds
          /\ titleArtistKey(sink[k].title, sink[k].artist) \notin currentTrackIds]_vars

\* C3: in Preserve mode, not a dry run and without failures, the second sync
\* of the unchanged Spotify playlist creates nothing and skips every track
C3_SecondSyncSkipsAll ==
  (/\ LoopDone
   /\ Playlists[p] = "spotify"
   /\ mode = "Preserve"
   /\ ~dryRun
   /\ runs = 2
   /\ faults = 0)
  => results.added = 0 /\ results.skipped = Len(tracks)

\* C4: when the ISRC query succeeds and some page's ISRC contains the track's
\* ISRC, the resolved page is the newest such page and it is found by the
\* ISRC lookup, whatever the track's title and artist and whatever pages the
\* title/artist lookup would find
C4_IsrcMatchWins ==
  (/\ pc = "resolved"
   /\ last.isrcOk
   /\ \E n \in 1..Len(sink) : matchesIsrc(last.track, sink[n]))
  => /\ last.existing = Newest({n \in 1..Len(sink) : matchesIsrc(last.track, sink[n])})
     /\ last.via = "isrc"

\* the ISRC match differs from the track in title and artist while another
\* page matches the track by title and artist only
C4_Witness ==
  /\ pc = "resolved"
  /\ last.via = "isrc"
  /\ ~matchesTitleArtist(last.track, sink[last.existing])
  /\ ~includes(sink[last.existing].title, last.track.title)
  /\ \E n \in 1..Len(sink) :
       /\ n # last.existing
       /\ matchesTitleArtist(last.track, sink[n])
       /\ ~matchesIsrc(last.track, sink[n])

\* C5: a track with an ISRC never resolves (no query failing) to a page that
\* carries a different ISRC, one that does not contain the track's
C5_NeverDifferentIsrc ==
  (/\ pc = "resolved"
   /\ last.isrcOk
   /\ last.titleOk
   /\ last.track.isrc # Absent
   /\ last.existing # Null)
  => \/ sink[last.existing].isrc = Absent
     \/ includes(sink[last.existing].isrc, last.track.isrc)

\* C6: a track without ISRC resolves to a page only if the page's title
\* contains the track's title and the page's lowercased artist contains the
\* track's lowercased artist; it resolves to null when every page whose title
\* contains the track's title has an artist that does not
C6_FallbackMatch ==
  (pc = "resolved" /\ last.track.isrc = Absent)
  => /\ last.existing # Null =>
          /\ last.track.artist # Absent
          /\ includes(sink[last.existing].title, last.track.title)
          /\ includes(toLowerCase(sink[last.existing].artist),
                      toLowerCase(last.track.artist))
     /\ (\A n \in 1..Len(sink) :
           includes(sink[n].title, last.track.title)
             => ~includes(toLowerCase(sink[n].artist), toLowerCase(last.track.artist)))
        => last.existing = Null

\* a page's title properly contains the track's title, no such page has a
\* matching artist, and the track resolves to null
C6_Witness ==
  /\ pc = "resolved"
  /\ last.track.isrc = Absent
  /\ last.track.artist # Absent
  /\ last.titleOk
  /\ last.existing = Null
  /\ \E n \in 1..Len(sink) :
       /\ includes(sink[n].title, last.track.title)
       /\ sink[n].title # last.track.title
       /\ sink[n].artist # Absent

\* C7: when no sink query fails, a step that creates a page never creates it
\* with an ISRC that a page of the database already carries (or contains)
C7_NoSecondPagePerIsrc ==
  [][(/\ Len(sink') > Len(sink)
      /\ last'.isrcOk
      /\ last'.titleOk
      /\ sink'[Len(sink')].isrc # Absent)
     => \A k \in 1..Len(sink) :
          /\ sink[k].isrc # sink'[Len(sink')].isrc
          /\ ~includes(sink[k].isrc, sink'[Len(sink')].isrc)]_vars

\* the same ISRC came twice within one playlist: the first track created
\* the page, the second one resolved to it by ISRC and created nothing
C7_Witness ==
  /\ pc = "tracks"
  /\ i = 3
  /\ tracks[1].isrc # Absent
  /\ tracks[2].isrc = tracks[1].isrc
  /\ ~dryRun
  /\ hist.clean
  /\ results.added = 1
  /\ last.via = "isrc"
  /\ last.existing = Len(sink)
  /\ Len(sink) = Len(hist.sink0) + 1

\* C8 as amended: with k tracks whose ISRC is present in the database and m
\* tracks that match no page by either key, each judged when it is processed,
\* a sync without failures reports created = m and updated = k (Update mode)
\* or skipped = k (Preserve mode)
C8_CountsWhenProcessed ==
  (LoopDone /\ hist.clean /\ hist.f = 0)
  => /\ results.added = hist.m
     /\ results.errors = 0
     /\ mode = "Update" => results.updated = hist.k /\ results.skipped = 0
     /\ mode = "Preserve" => results.skipped = hist.k /\ results.updated = 0

\* the scenario k = 2, m = 1 in Preserve mode
C8_Witness ==
  /\ LoopDone
  /\ Len(tracks) = 3
  /\ hist.clean
  /\ hist.k = 2
  /\ hist.m = 1
  /\ mode = "Preserve"
  /\ ~dryRun
  /\ results.added = 1
  /\ results.skipped = 2

\* C8 as stated: the k and m tracks judged against the database as it is
\* when the sync of the playlist starts, the m tracks pairwise different in
\* ISRC and in lowercased title and artist
C8_CountsAgainstInitialSink ==
  LET kinds == [n \in 1..Len(tracks) |-> trackKind(tracks[n], hist.sink0)]
      k0 == Cardinality({n \in 1..Len(tracks) : kinds[n] = "k"})
      m0 == Cardinality({n \in 1..Len(tracks) : kinds[n] = "m"})
  IN (/\ LoopDone
      /\ hist.clean
      /\ \A n \in 1..Len(tracks) : kinds[n] \in {"k", "m"}
      /\ \A n, q \in 1..Len(tracks) :
           (n # q /\ kinds[n] = "m" /\ kinds[q] = "m") =>
             /\ tracks[n].isrc = Absent \/ tracks[n].isrc # tracks[q].isrc
             /\ titleArtistKey(tracks[n].title, tracks[n].artist)
                  # titleArtistKey(tracks[q].title, tracks[q].artist))
     => /\ results.added = m0
        /\ mode = "Update" => results.updated = k0
        /\ mode = "Preserve" => results.skipped = k0

\* C9: in Update mode a track that resolves to a page is reported 'updated'
\* unless the write fails, and the write (not a dry run) leaves the page with
\* removed = FALSE and with the track's value in every automated field the
\* track carries, every other page unchanged
C9_UpdateReactivates ==
  [][(TrackStep /\ mode = "Update" /\ last'.existing # Null /\ last'.result # "error")
     => /\ last'.result = "updated"
        /\ results' = [results EXCEPT !.updated = @ + 1]
        /\ ~dryRun =>
             /\ Len(sink') = Len(sink)
             /\ ~sink'[last'.existing].removed
             /\ \A f \in {"title", "artist", "isrc"} :
                  last'.track[f] # Absent => sink'[last'.existing][f] = last'.track[f]
             /\ \A k \in 1..Len(sink) : k # last'.existing => sink'[k] = sink[k]]_vars

\* a page that was removed when the sync started has been updated by a track
\* with another title and is not removed any more
C9_Witness ==
  /\ pc = "tracks"
  /\ mode = "Update"
  /\ ~dryRun
  /\ last.kind = "track"
  /\ last.result = "updated"
  /\ hist.sink0[last.existing].removed
  /\ hist.sink0[last.existing].title # last.track.title
  /\ ~sink[last.existing].removed
  /\ sink[last.existing].title = last.track.title

\* C10: in Preserve mode a track that resolves to a page changes no page of
\* the database and is reported 'skipped'
C10_PreserveWritesNothing ==
  [][(TrackStep /\ mode = "Preserve" /\ last'.existing # Null)
     => /\ sink' = sink
        /\ last'.result = "skipped"
        /\ results' = [results EXCEPT !.skipped = @ + 1]]_vars

\* a track was skipped although its title and ISRC differ from the page's,
\* which is removed and annotated
C10_Witness ==
  /\ pc = "tracks"
  /\ mode = "Preserve"
  /\ ~dryRun
  /\ last.kind = "track"
  /\ last.result = "skipped"
  /\ sink[last.existing].title # last.track.title
  /\ sink[last.existing].isrc # last.track.isrc
  /\ sink[last.existing].removed
  /\ sink[last.existing].notes # Absent

\* C11: an updateTrack write leaves every manual field of every page as it
\* was: the properties it sends hold automated fields only
C11_UpdateKeepsManualFields ==
  [][(pc = "write" /\ last'.kind = "update")
     => \A k \in 1..Len(sink) : \A f \in ManualFields : sink'[k][f] = sink[k][f]]_vars

\* C12: in a dry run no step of a sync or a cleanup changes the database,
\* each processed track is reported with the label of its resolution
\* ('created' when no page resolved, else 'updated' or 'skipped' by mode),
\* and a playlist synced against an empty database reports every track
\* created while the database stays empty
C12_DryRunWritesNothing ==
  [][dryRun =>
       /\ sink' = sink
       /\ TrackStep =>
            /\ last'.result = IF last'.existing = Null THEN "created"
                              ELSE IF mode = "Update" THEN "updated" ELSE "skipped"
            /\ (i' > Len(tracks') /\ hist'.sink0 = <<>>) =>
                 /\ results'.added = Len(tracks')
                 /\ sink' = <<>>]_vars

\* a dry run over two equal tracks against the empty database: both are
\* reported created and the database is still empty
C12_Witness ==
  /\ dryRun
  /\ LoopDone
  /\ hist.sink0 = <<>>
  /\ Len(tracks) = 2
  /\ tracks[1] = tracks[2]
  /\ tracks[1].isrc # Absent
  /\ results.added = 2
  /\ sink = <<>>

C14_UnhealthyPlaylistOnly ==
  [][/\ (pc = "playlists" /\ last'.kind = "playlist" /\ last'.result = "unhealthy") =>
          /\ sink' = sink
          /\ summary' = [summary EXCEPT ![Playlists[p]].errors = @ + 1,
                                         !.total.errors = @ + 1]
          /\ pc' = "playlists"
          /\ p' = p + 1
          /\ runs' = runs
     /\ (pc = "playlists" /\ p <= Len(Playlists)) =>
          /\ last'.kind = "playlist"
          /\ last'.page = p
     /\ (pc = "playlists" /\ pc' \notin {"playlists", "tracks"}) =>
          p > Len(Playlists)]_vars

\* the Spotify playlist was synced and created two pages, then the health
\* check of the Apple Music playlist failed: one Apple Music error, the
\* Spotify counts and the pages are kept
C14_Witness ==
  /\ pc = "playlists"
  /\ last.kind = "playlist"
  /\ last.result = "unhealthy"
  /\ last.page = 2
  /\ summary.spotify.added = 2
  /\ summary.spotify.errors = 0
  /\ summary.appleMusic.errors = 1
  /\ summary.total.errors = 1
  /\ Len(sink) >= 2

\* C15: fullSync never ends by raising: whatever fails, the run ends by
\* returning its summary
C15_FullSyncNeverRaises == outcome # "raised"

\* the fetched pages that cleanup has to mark: not manually added, ISRC not
\* in the live set and lowercased title:artist key not in the live set
StalePages ==
  {k \in 1..Len(allNotionTracks) :
     /\ ~manuallyAdded(allNotionTracks[k])
     /\ allNotionTracks[k].isrc \notin currentTrackIds
     /\ titleArtistKey(allNotionTracks[k].title, allNotionTracks[k].artist)
          \notin currentTrackIds}

\* the page loop of cleanupRemovedTracks has finished
CleanupDone == pc = "cleanup" /\ j > Len(allNotionTracks)

\* C16: when the page loop is over and no removal write failed, every stale
\* page is removed in the database (outside a dry run) and the marked count
\* is the number of stale pages
C16_StalePagesMarked ==
  (CleanupDone /\ cleanup.errors = 0)
  => /\ ~dryRun => \A k \in StalePages : sink[allNotionTracks[k].id].removed
     /\ cleanup.marked = Cardinality(StalePages)

\* C17: no step of a cleanup changes a page whose Source is 'Link Only' or
\* 'File Upload', and the step that examines such a page issues no write:
\* the database and the cleanup counters stay as they are, no write can fail
C17_ManualPagesSkipped ==
  [][pc = "cleanup" =>
       /\ \A k \in 1..Len(sink) : sink[k].source \in ManualSources => sink'[k] = sink[k]
       /\ (last'.kind = "page" /\ sink[last'.page].source \in ManualSources) =>
            /\ last'.result = "kept"
            /\ sink' = sink
            /\ cleanup' = cleanup
            /\ faults' = faults]_vars

\* every playlist has tracks but every fetch of the cleanup failed, so the
\* live set is empty; the manually added page was examined and kept
C17_Witness ==
  /\ pc = "cleanup"
  /\ ~dryRun
  /\ last.kind = "page"
  /\ last.result = "kept"
  /\ sink[last.page].source \in ManualSources
  /\ ~sink[last.page].removed
  /\ currentTrackIds = {}
  /\ live[1] # <<>>
  /\ live[2] # <<>>

\* the fetched pages for which cleanup attempts a removal
AttemptedPages ==
  {k \in 1..(j - 1) :
     /\ allNotionTracks[k].source \notin ManualSources
     /\ ~trackExists(allNotionTracks[k], currentTrackIds)}

\* C18: a removal write that fails counts exactly one cleanup error, leaves
\* marked and the database as they are, and the loop goes on with the next
\* page; at every point of the loop marked + errors is the number of pages
\* for which a removal was attempted
C18_FailedRemovalIsOneError ==
  [][pc = "cleanup" =>
       /\ (last'.kind = "page" /\ last'.result = "error") =>
            /\ cleanup' = [cleanup EXCEPT !.errors = @ + 1]
            /\ sink' = sink
            /\ pc' = "cleanup"
            /\ j' = j + 1
       /\ (last'.kind = "page" /\ last'.result = "marked") =>
            cleanup' = [cleanup EXCEPT !.marked = @ + 1]
       /\ pc' = "cleanup" =>
            (cleanup.marked + cleanup.errors = Cardinality(AttemptedPages))'
       /\ pc' # "cleanup" => j > Len(allNotionTracks)]_vars

\* the removal of the first page examined failed; the loop went on and the
\* next page, stale by both keys, was marked removed
C18_Witness ==
  /\ pc = "cleanup"
  /\ ~dryRun
  /\ cleanup.errors = 1
  /\ cleanup.marked = 1
  /\ last.kind = "page"
  /\ last.result = "marked"
  /\ sink[last.page].removed
  /\ sink[last.page].artist # Absent
  /\ titleArtistKey(sink[last.page].title, sink[last.page].artist) \notin currentTrackIds
  /\ \E k \in 1..Len(sink) : k # last.page /\ ~sink[k].removed

\* the identifiers of the tracks currently in playlist k
PlaylistIds(k) == trackIds(live[k])

\* C19: a cleanup is given up at its start only when the initial query fails
\* or an identifier cannot be built, never because a re-fetch failed; when
\* it goes on, the live set holds the identifiers of exactly the playlists
\* whose re-fetch did not fail, and a non-manual page that is outside that
\* set by both keys gets its removal attempted
C19_RefetchFailureReducesLiveSet ==
  [][/\ (pc = "playlists" /\ last'.kind = "cleanup") =>
          /\ pc' # "cleanup" => last'.result \in {"queryFailed", "keyRaised"}
          /\ pc' = "cleanup" =>
               currentTrackIds' =
                 UNION {PlaylistIds(k) : k \in (1..Len(Playlists)) \ hist'.refetchFailed}
     /\ (pc = "cleanup" /\ last'.kind = "page"
           /\ sink[last'.page].source \notin ManualSources
           /\ sink[last'.page].isrc \notin currentTrackIds
           /\ titleArtistKey(sink[last'.page].title, sink[last'.page].artist)
                \notin currentTrackIds) =>
          last'.result \in {"marked", "error"}]_vars

\* the re-fetch of the Apple Music playlist failed and the Spotify playlist
\* contributed its identifiers; the page of the Apple Music track, absent
\* from the Spotify playlist, was marked removed
C19_Witness ==
  /\ pc = "cleanup"
  /\ ~dryRun
  /\ hist.refetchFailed = {2}
  /\ currentTrackIds # {}
  /\ currentTrackIds = PlaylistIds(1)
  /\ last.kind = "page"
  /\ last.result = "marked"
  /\ sink[last.page].removed
  /\ sink[last.page].isrc \in PlaylistIds(2)
  /\ sink[last.page].isrc \notin PlaylistIds(1)

\* the page a track resolves to when a lookup whose query fails finds nothing
Resolved(s, t, isrcOk, titleOk) ==
  LET byIsrc == {n \in 1..Len(s) : matchesIsrc(t, s[n])}
      byTitle == {n \in 1..Len(s) : matchesTitleArtist(t, s[n])}
  IN IF isrcOk /\ byIsrc # {} THEN Newest(byIsrc)
     ELSE IF titleOk /\ byTitle # {} THEN Newest(byTitle)
     ELSE Null

\* C20: a failing lookup query never makes the processing of a track fail:
\* the lookup finds nothing and resolution goes on, a track is reported as an
\* error only when its write failed, and a track left unresolved is created
\* (outside a dry run as a new page), whatever pages the database holds
C20_LookupFailureIsNoMatch ==
  [][TrackStep =>
       /\ last'.existing = Resolved(sink, last'.track, last'.isrcOk, last'.titleOk)
       /\ hist'.failedAt # i => last'.result # "error"
       /\ (last'.existing = Null /\ hist'.failedAt # i) =>
            /\ last'.result = "created"
            /\ ~dryRun => Len(sink') = Len(sink) + 1]_vars

\* the ISRC lookup of a track failed while a page carries its ISRC: the
\* track was created again and two pages now carry the ISRC
C20_Witness ==
  /\ pc = "tracks"
  /\ last.kind = "track"
  /\ ~last.isrcOk
  /\ last.result = "created"
  /\ Len(sink) >= 2
  /\ sink[Len(sink)].isrc = last.track.isrc
  /\ \E k \in 1..(Len(sink) - 1) : sink[k].isrc = last.track.isrc

\* C21: a run that is cancelled after some of its writes and followed by a
\* run that goes to its end, nothing failing, leaves the database that one
\* uninterrupted run would have left: the same pages with the same flags
C21_RerunAfterCancelEqualsOneRun ==
  (/\ pc = "idle"
   /\ runs = 2
   /\ outcome = "returned"
   /\ hist.cancelled)
  => sink = fullSyncSink(hist.origin, live, mode, dryRun)

\* C22: cleanup starts only when every configured playlist has been synced
\* or has failed, at most once in a run, and a run ends only after its one
\* cleanup has started
C22_CleanupOnceAfterAllPlaylists ==
  [][/\ last'.kind = "cleanup" =>
          /\ pc = "playlists"
          /\ p > Len(Playlists)
          /\ hist.cleanups = 0
          /\ hist'.cleanups = 1
     /\ (pc # "idle" /\ pc' = "idle") => hist'.cleanups = 1
     /\ (pc = "tracks" \/ (pc = "playlists" /\ p <= Len(Playlists))) =>
          pc' \in {"playlists", "tracks"}]_vars

\* both playlists were synced, one with a failing track write, before the
\* one cleanup of the second run marked a page
C22_Witness ==
  /\ pc = "cleanup"
  /\ runs = 2
  /\ hist.cleanups = 1
  /\ p = Len(Playlists) + 1
  /\ summary.spotify.added >= 1
  /\ summary.total.errors >= 1
  /\ last.kind = "page"
  /\ last.result = "marked"

\* C23: the page createTrack writes lets title, isrc and duration be read
\* back unchanged: title and isrc are stored as given, and the stored M:SS
\* string stands for the seconds of the track, for every duration from 0 up
C23_CreateRoundTrip ==
  (/\ pc = "written"
   /\ last.kind = "create"
   /\ ~dryRun)
  => LET page == sink[Len(sink)]
     IN /\ page.title = last.track.title
        /\ page.isrc = last.track.isrc
        /\ hasDuration(last.track) => parseDuration(page.duration) = last.track.duration

\* C24: when the display name of the playlist cannot be fetched, normalizing
\* a track of either source still returns, and the track's playlist name is
\* the playlist's id
C24_NameFailureFallsBackToId ==
  (last.kind = "normalize" /\ last.via = "nameFailed")
  => /\ last.result = "returned"
     /\ last.track.playlist = playlistId(last.page)

\* C25: a page to which a live track resolved in the sync phase of a run is
\* not marked removed by the cleanup of that run, when the cleanup fetches
\* the same playlists and nothing fails
C25_ResolvedPagesNotMarked ==
  [][(/\ last'.kind = "page"
      /\ faults' = 0
      /\ hist.refetchFailed = {})
     => \A k \in hist.resolved : sink'[k].removed = sink[k].removed]_vars

\* C27: a page the sync phase of a run created from a track that has an
\* artist is not marked removed by the cleanup of that run, when the cleanup
\* fetches the same playlists and no fetch fails
C27_CreatedPagesNotMarked ==
  [][(/\ last'.kind = "page"
      /\ hist.refetchFailed = {})
     => (last'.page \in hist.created => /\ last'.result = "kept"
                                         /\ sink'[last'.page].removed = FALSE)]_vars

\* the cleanup kept a page that the run created from a track with an artist
\* and no ISRC
C27_Witness ==
  /\ last.kind = "page"
  /\ last.result = "kept"
  /\ hist.refetchFailed = {}
  /\ last.page \in hist.created
  /\ sink[last.page].isrc = Absent
  /\ ~sink[last.page].removed
  /\ ~dryRun

\* C26: in Preserve mode no step turns a removed page into an active one; a
\* track that matches a removed page resolves to a page and is skipped, the
\* database unchanged, so the page stays removed through every later run
C26_PreserveKeepsRemoved ==
  [][mode = "Preserve" =>
       /\ \A k \in 1..Len(sink) : sink[k].removed => sink'[k].removed
       /\ (/\ TrackStep
           /\ last'.isrcOk
           /\ last'.titleOk
           /\ \E k \in 1..Len(sink) :
                /\ sink[k].removed
                /\ \/ matchesIsrc(last'.track, sink[k])
                   \/ matchesTitleArtist(last'.track, sink[k]))
          => /\ last'.existing # Null
             /\ last'.result = "skipped"
             /\ sink' = sink]_vars

\* the second full run has returned; a live track resolved in it to a page
\* that was removed before and is removed still
C26_Witness ==
  /\ pc = "idle"
  /\ runs = 2
  /\ outcome = "returned"
  /\ mode = "Preserve"
  /\ ~dryRun
  /\ \E k \in hist.resolved :
       /\ sink[k].removed
       /\ \E n \in 1..Len(live[1]) : live[1][n].isrc = sink[k].isrc
                                       /\ sink[k].isrc # Absent

\* C28: a playlist sync checks the service's health, fetches the playlist's
\* metadata, then fetches its tracks, and only then handles tracks: the track
\* loop is entered only when none of the three failed, with every fetched
\* track ahead, and a failure of any of them ends the playlist with one
\* error counted and the database untouched
C28_TracksOnlyAfterHealthMetadataFetch ==
  [][/\ last'.kind = "playlist" => sink' = sink
     /\ (last'.kind = "playlist" /\ last'.result # "started")
          => /\ pc' = "playlists"
             /\ p' = p + 1
             /\ summary'.total.errors = summary.total.errors + 1
     /\ (pc # "tracks" /\ pc' = "tracks")
          => /\ last'.kind = "playlist"
             /\ last'.result = "started"
             /\ faults' = faults
             /\ tracks' = live[p]
             /\ i' = 1
     /\ TrackStep => pc = "tracks" /\ i <= Len(tracks)]_vars

\* the metadata request of the Spotify playlist failed: the playlist counts
\* one error and none of its tracks reached the database
C28_Witness ==
  /\ last.kind = "playlist"
  /\ last.result = "metadataFailed"
  /\ last.page = 1
  /\ live[1] # <<>>
  /\ summary.spotify.errors = 1
  /\ sink = <<>>
  /\ pc = "playlists"
  /\ p = 2

\* C29: when several pages satisfy the lookup that resolves a track, the
\* resolved page is the most recently created of them, for the ISRC lookup
\* and for the title/artist lookup alike
C29_NewestMatchReturned ==
  pc = "resolved"
  => LET byIsrc == {n \in 1..Len(sink) : matchesIsrc(last.track, sink[n])}
         byTitle == {n \in 1..Len(sink) : matchesTitleArtist(last.track, sink[n])}
     IN /\ (last.isrcOk /\ Cardinality(byIsrc) >= 2)
             => \A n \in byIsrc : last.existing >= n
        /\ (last.titleOk /\ (byIsrc = {} \/ ~last.isrcOk) /\ Cardinality(byTitle) >= 2)
             => \A n \in byTitle : last.existing >= n
        /\ last.existing # Null
             => \/ last.via = "isrc" /\ last.existing \in byIsrc
                \/ last.via = "title" /\ last.existing \in byTitle

\* two pages that differ in their artist both match the track by title and
\* artist, and the younger one is the resolved page
C29_Witness ==
  /\ pc = "resolved"
  /\ last.via = "title"
  /\ Len(sink) = 2
  /\ matchesTitleArtist(last.track, sink[1])
  /\ matchesTitleArtist(last.track, sink[2])
  /\ sink[1].artist # sink[2].artist
  /\ last.existing = 2

\* C30: the counters of a playlist sync add up to the tracks handled so far:
\* when the sync has gone through its track loop, added + updated + skipped +
\* errors is the number of tracks fetched, and that many are added to the
\* service's counters in the summary
C30_CountersSumToFetched ==
  [][/\ pc' = "tracks" =>
          /\ tracks' = live[p']
          /\ results'.added + results'.updated + results'.skipped + results'.errors
               = i' - 1
     /\ (pc = "tracks" /\ pc' # "tracks") =>
          LET svc == Playlists[p]
              sum(r) == r.added + r.updated + r.skipped + r.errors
          IN /\ sum(results) = Len(live[p])
             /\ sum(summary'[svc]) = sum(summary[svc]) + Len(live[p])]_vars

\* a playlist of three tracks went through the loop in Preserve mode: two
\* tracks created, one skipped, none failed
C30_Witness ==
  /\ LoopDone
  /\ Len(tracks) = 3
  /\ mode = "Preserve"
  /\ ~dryRun
  /\ results = [added |-> 2, updated |-> 0, skipped |-> 1, errors |-> 0]
  /\ Len(sink) = Len(hist.sink0) + 2

\* C31: within a run no counter of the summary ever decreases, and at every
\* moment the totals are the sums over the two services: errors of errors,
\* skipped of skipped, processed and successful both of added plus updated
C31_SummaryMonotoneAndConsistent ==
  [][/\ (pc # "idle" /\ runs' = runs) =>
          /\ \A svc \in {"spotify", "appleMusic"} :
               \A f \in {"added", "updated", "skipped", "errors"} :
                 summary'[svc][f] >= summary[svc][f]
          /\ \A f \in {"processed", "successful", "skipped", "errors"} :
               summary'.total[f] >= summary.total[f]
     /\ summary'.total.errors = summary'.spotify.errors + summary'.appleMusic.errors
     /\ summary'.total.skipped = summary'.spotify.skipped + summary'.appleMusic.skipped
     /\ summary'.total.processed = summary'.spotify.added + summary'.spotify.updated
                                     + summary'.appleMusic.added + summary'.appleMusic.updated
     /\ summary'.total.successful = summary'.total.processed]_vars

\* both playlists are behind the loop: the Spotify one added, skipped and
\* failed on a track, the Apple Music one failed as a whole
C31_Witness ==
  /\ pc = "playlists"
  /\ p = Len(Playlists) + 1
  /\ summary.spotify.added >= 1
  /\ summary.spotify.skipped >= 1
  /\ summary.appleMusic.errors = 1
  /\ summary.total.errors = 1
  /\ summary.total.skipped >= 1

\* C32: a second cleanup that follows a first one, the playlists unchanged,
\* outside a dry run and nothing failing in either, marks no page and leaves
\* the database as the first one left it
C32_SecondCleanupMarksNothing ==
  [][(runs = 2 /\ ~dryRun /\ faults' = 0)
     => /\ cleanup'.marked = 0
        /\ cleanup'.errors = 0
        /\ sink' = sink]_vars

\* the first cleanup marked a page; the second examined another page, kept
\* it, and returned
C32_Witness ==
  /\ pc = "idle"
  /\ runs = 2
  /\ outcome = "returned"
  /\ ~dryRun
  /\ faults = 0
  /\ Len(allNotionTracks) >= 1
  /\ \E k \in 1..Len(sink) : sink[k].removed /\ ~hist.origin[k].removed

\* C34: a request issues at most three fetches, counts at most three
\* retries, and comes to an end, whatever the answers and the outcomes of
\* the token refreshes
C34_AtMostThreeAttemptsAndEnds ==
  /\ [](net.attempts <= 3 /\ net.retryCount <= 3)
  /\ [][net'.calls = net.calls =>
          \/ net'.status # "running"
          \/ net'.retryCount = net.retryCount + 1]_vars
  /\ (net.status = "running") ~> (net.status # "running")

\* the third fetch of a request was issued after a rate-limit answer and an
\* auth answer, and it failed with an error status
C34_Witness ==
  /\ net.status = "raised"
  /\ net.attempts = 3
  /\ net.retryCount = 2
  /\ net.response = "error"
  /\ net.calls = 2

\* C35: a request ends by returning the data of a successful response or
\* by raising: it never ends without data and without an error
C35_ReturnsDataOrRaises ==
  net.status \in {"idle", "running", "returned", "raised"}

\* C38: an attempt of a Spotify request uses the cached token only when the
\* clock is earlier than the token's expiry minus the margin of 60 s; a 401
\* answer empties the cache, and the attempt that follows it in the same
\* request asks for a new token before it calls the API
C38_TokenReusedOnlyBeforeMargin ==
  [][(net.service = "spotify" /\ net.status = "running" /\ net'.calls = net.calls)
     => /\ net'.reused => /\ net.accessToken # Null
                          /\ net'.now < net.expires - Margin
        /\ net.response = "auth" => ~net'.reused
        /\ net'.response = "auth" => net'.accessToken = Null]_vars

\* a Spotify request sent the cached token, well before its expiry, and was
\* answered 401: the cache is empty and the request goes on to a next attempt
C38_Witness ==
  /\ net.service = "spotify"
  /\ net.status = "running"
  /\ net.response = "auth"
  /\ net.reused
  /\ net.now < net.expires - Margin
  /\ net.accessToken = Null
  /\ net.retryCount = 1

\* C36: with WEBHOOK_SECRET configured, a request whose x-webhook-secret
\* header is another value, or which has no such header and no matching
\* secret in its body, is answered 401 and no repository_dispatch is issued;
\* a success response is sent only if the dispatch was answered 204
C36_WrongSecretIs401NoDispatch ==
  (hook.status = "answered" /\ hook.configured)
  => /\ (\/ hook.header = "wrong"
         \/ /\ hook.header \in {"absent", "empty"}
            /\ hook.body \in {"undefined", "noSecret", "wrong"})
        => /\ hook.response = 401
           /\ ~hook.dispatched
     /\ hook.response = 200 => /\ hook.dispatched
                               /\ hook.github = "204"

\* C33: getPlaylistTracks returns only when no next-page link is left, and
\* what it returns are the tracks of all pages in page order; when a page
\* request fails it raises and returns nothing
C33_AllPagesInOrderOrRaise ==
  /\ (pc = "idle" /\ outcome = "returned")
     => /\ net.nextUrl = Null
        /\ Len(results) = Len(allItems(net.pages))
        /\ \A k \in 1..Len(results) :
             Track(results[k].title, results[k].artist, results[k].isrc)
               = allItems(net.pages)[k]
  /\ (last.kind = "request" /\ last.via # "data")
     => /\ pc = "idle"
        /\ outcome = "raised"

\* a playlist of two pages, each with tracks, was returned
C33_Witness ==
  /\ pc = "idle"
  /\ outcome = "returned"
  /\ Len(net.pages) = 2
  /\ net.pages[1] # <<>>
  /\ net.pages[2] # <<>>
  /\ net.pages[1] # net.pages[2]
  /\ Len(results) >= 2

\* C37: the normalization of the tracks of one playlist fetch performs at
\* most one fetch of the playlist's metadata for the whole batch
C37_OneMetadataFetchPerBatch ==
  (pc = "idle" /\ outcome = "returned") => net.getPlaylistCalls <= 1

====
